---- MODULE Spec2Model ----
(***************************************************************************)
(* Ledger import and player statistics of putrv4.                          *)
(*                                                                         *)
(* The store (Game, PlayerGameStats, LedgerEntry, Player, PlayerNickname   *)
(* tables) is the state.  A session is a record holding a working copy of  *)
(* the four tables an import writes; a handler commits the session it      *)
(* built or, when the import raised, discards it.                          *)
(*                                                                         *)
(* Text is modelled as sequences of tokens: a file stem such as            *)
(* "ledger23_10_07(1)" is <<"ledger","23","_","10","_","07","(","1",")">>. *)
(* A CSV cell is a record [kind, val]: the decimal text of val ("num"),    *)
(* the empty string, a whitespace-only string, a missing column ("none")   *)
(* or text float() rejects ("bad").                                        *)
(***************************************************************************)
EXTENDS Integers, Sequences, FiniteSets, TLC

VARIABLES
    games,      \* Game rows, in insertion order: [id, date_str, ledger_filename]
    stats,      \* PlayerGameStats rows, in insertion order: [player_id, game_id, net]
    entries,    \* LedgerEntry rows, in insertion order
    players,    \* Player rows: a function from player id to the record
    nicknames,  \* PlayerNickname rows: a set of [nickname, player_name, player_id]
    op,         \* the operation that ran last: "init", "upload", "batch", "parse",
                \* "recalc" or "recalc_all"
    file,       \* the file the last upload was given; the key the last parse was given
    result,     \* what the last import or parse returned or raised
    status,     \* FileUploadResult.status of the last upload; outcome of a batch
                \* or of a recalculation
    batch_log,  \* last batch: per processed file, [name, result]; last parse: the
                \* value returned; last recalculation: the player ids recalculated
    sessions    \* the sessions of importers that run side by side, by importer;
                \* empty where every handler runs alone from begin to commit

vars ==
    <<games, stats, entries, players, nicknames, op, file, result, status, batch_log,
      sessions>>

----------------------------------------------------------------------------
(* Bounds *)

MaxRows == 2        \* data rows in a ledger file
MaxGames == 2       \* Game rows the store may hold
MaxBatch == 2       \* files in a ledgers directory
MaxKeyParts == 4    \* "_"-delimited parts of a key handed to parse_date_str
MaxHistory == 3     \* games of a player in a stored history

----------------------------------------------------------------------------
(* Text: tokens *)

NumTokens == {"07", "09", "10", "23", "26", "0", "1", "2", "24", "13"}

TokenValue(t) ==
    CASE t = "07" -> 7  [] t = "09" -> 9  [] t = "10" -> 10 [] t = "23" -> 23
      [] t = "26" -> 26 [] t = "1" -> 1   [] t = "2" -> 2   [] t = "24" -> 24
      [] t = "13" -> 13 [] OTHER -> 0

TokenDigits(t) == IF t \in {"0", "1", "2"} THEN 1 ELSE 2

Pow10(n) == IF n = 1 THEN 10 ELSE 100

\* str.split(sep)[0] and the rest after the first sep
Before(s, sep) ==
    IF \E i \in 1..Len(s) : s[i] = sep
    THEN SubSeq(s, 1, (CHOOSE i \in 1..Len(s) :
                          s[i] = sep /\ \A j \in 1..(i - 1) : s[j] # sep) - 1)
    ELSE s

After(s, sep) ==
    IF \E i \in 1..Len(s) : s[i] = sep
    THEN SubSeq(s, (CHOOSE i \in 1..Len(s) :
                       s[i] = sep /\ \A j \in 1..(i - 1) : s[j] # sep) + 1, Len(s))
    ELSE <<>>

Contains(s, t) == \E i \in 1..Len(s) : s[i] = t

RECURSIVE Split(_, _)
Split(s, sep) ==
    IF Contains(s, sep)
    THEN <<Before(s, sep)>> \o Split(After(s, sep), sep)
    ELSE <<s>>

RECURSIVE RStrip(_, _)
RStrip(s, t) ==
    IF Len(s) > 0 /\ s[Len(s)] = t THEN RStrip(SubSeq(s, 1, Len(s) - 1), t) ELSE s

\* int(text) succeeds exactly on a non-empty run of digits
IsInt(s) == Len(s) > 0 /\ \A i \in 1..Len(s) : s[i] \in NumTokens

RECURSIVE IntOf(_)
IntOf(s) ==
    IF Len(s) = 0 THEN 0
    ELSE IntOf(SubSeq(s, 1, Len(s) - 1)) * Pow10(TokenDigits(s[Len(s)]))
         + TokenValue(s[Len(s)])

----------------------------------------------------------------------------
(* CSV cells and rows *)

Num(v) == [kind |-> "num", val |-> v]
Empty == [kind |-> "empty", val |-> 0]
Blank == [kind |-> "blank", val |-> 0]
Missing == [kind |-> "none", val |-> 0]
Bad == [kind |-> "bad", val |-> 0]

\* A parse that zeroes what float() rejects
ParseFloatLenient(cell) ==
    IF cell.kind = "num" THEN [ok |-> TRUE, val |-> cell.val] ELSE [ok |-> TRUE, val |-> 0]

\* _parse_float: [ok, val]; not ok is float() raising ValueError
_parse_float(cell) ==
    IF cell.kind \in {"none", "empty", "blank"} THEN [ok |-> TRUE, val |-> 0]
    ELSE IF cell.kind = "num" THEN [ok |-> TRUE, val |-> cell.val]
    ELSE [ok |-> FALSE, val |-> 0]

\* one csv.DictReader row (the session timestamps are copied verbatim and left out)
Row(nick, id_csv, net, buy_in, buy_out, stack) ==
    [player_nickname |-> nick, player_id |-> id_csv, net |-> net,
     buy_in |-> buy_in, buy_out |-> buy_out, stack |-> stack]

----------------------------------------------------------------------------
(* Stats engine *)

DATE_PARTS_COUNT == 3

Max(a, b) == IF a >= b THEN a ELSE b
Min(a, b) == IF a <= b THEN a ELSE b

RECURSIVE Gcd(_, _)
Gcd(a, b) == IF b = 0 THEN a ELSE Gcd(b, a % b)

Abs(a) == IF a < 0 THEN -a ELSE a

\* the float n / d for d > 0, as the fraction in lowest terms
Quotient(n, d) ==
    LET g == Gcd(Abs(n), d) IN [num |-> n \div g, den |-> d \div g]

Zero == [num |-> 0, den |-> 1]

IsLeap(year) == (year % 4 = 0 /\ year % 100 # 0) \/ year % 400 = 0

DaysInMonth(year, month) ==
    IF month = 2 THEN (IF IsLeap(year) THEN 29 ELSE 28)
    ELSE IF month \in {4, 6, 9, 11} THEN 30 ELSE 31

\* datetime(year, month, day, hour=hour): [err, key]; datetimes compare as their
\* (year, month, day, hour), which key encodes
datetime(year, month, day, hour) ==
    IF /\ year \in 1..9999
       /\ month \in 1..12
       /\ day \in 1..DaysInMonth(year, month)
       /\ hour \in 0..23
    THEN [err |-> "", key |-> ((year * 100 + month) * 100 + day) * 100 + hour]
    ELSE [err |-> "ValueError", key |-> 0]

\* parse_date_str: [err, key]; err # "" is the exception it raised
parse_date_str(date_str) ==
    LET base_date == Before(date_str, "(")
        \* int(suffix), 0 on ValueError
        Number(suffix) == IF IsInt(suffix) THEN IntOf(suffix) ELSE 0
        game_number == IF Contains(date_str, "(")
                       THEN Number(RStrip(Split(date_str, "(")[2], ")"))
                       ELSE 0
        Date(parts) ==
            IF Len(parts) # DATE_PARTS_COUNT
            THEN [err |-> "ValidationError", key |-> 0]
            ELSE IF \E i \in 1..Len(parts) : ~IsInt(parts[i])
            THEN [err |-> "ValueError", key |-> 0]
            ELSE datetime(IntOf(parts[1]) + 2000, IntOf(parts[2]), IntOf(parts[3]),
                          game_number)
    IN  Date(Split(base_date, "_"))

\* select(PlayerGameStats, Game).join(...).where(player_id == ...): the player's
\* rows that have a Game, each with its game's date_str, in the store's order
get_player_stats_with_games(S, player_id) ==
    LET mine == SelectSeq(S.stats, LAMBDA st :
                    /\ st.player_id = player_id
                    /\ \E i \in 1..Len(S.games) : S.games[i].id = st.game_id)
        GameOf(st) == S.games[CHOOSE i \in 1..Len(S.games) : S.games[i].id = st.game_id]
    IN  [i \in 1..Len(mine) |->
            [net |-> mine[i].net, date_str |-> GameOf(mine[i]).date_str]]

\* The rows replayed in the store's order
Unsorted(s) == s

\* sorted(..., key=...): stable, ascending
RECURSIVE SortedByDate(_)
SortedByDate(s) ==
    IF Len(s) <= 1 THEN s
    ELSE LET \* x goes after the k rows of rest whose key is not greater
             Place(rest, x, k) ==
                 SubSeq(rest, 1, k) \o <<x>> \o SubSeq(rest, k + 1, Len(rest))
             Insert(rest, x, key) ==
                 Place(rest, x, Cardinality({i \in 1..Len(rest) :
                                    parse_date_str(rest[i].date_str).key <= key}))
         IN  Insert(SortedByDate(SubSeq(s, 1, Len(s) - 1)), s[Len(s)],
                    parse_date_str(s[Len(s)].date_str).key)

\* The extrema follow the single game's net, not the cumulative net
ReplayStepSingleGameExtrema(acc, game_net) ==
    [cumulative_net |-> acc.cumulative_net + game_net,
     highest_net |-> Max(acc.highest_net, game_net),
     lowest_net |-> Min(acc.lowest_net, game_net),
     games_up |-> IF game_net > 0 THEN acc.games_up + 1 ELSE acc.games_up,
     biggest_win |-> IF game_net > 0 THEN Max(acc.biggest_win, game_net)
                     ELSE acc.biggest_win,
     games_down |-> IF game_net < 0 THEN acc.games_down + 1 ELSE acc.games_down,
     biggest_loss |-> IF game_net < 0 THEN Min(acc.biggest_loss, game_net)
                      ELSE acc.biggest_loss,
     total_net |-> acc.total_net + game_net]

\* A game of net zero counts as a win
ReplayStepZeroIsWin(acc, game_net) ==
    [cumulative_net |-> acc.cumulative_net + game_net,
     highest_net |-> Max(acc.highest_net, acc.cumulative_net + game_net),
     lowest_net |-> Min(acc.lowest_net, acc.cumulative_net + game_net),
     games_up |-> IF game_net >= 0 THEN acc.games_up + 1 ELSE acc.games_up,
     biggest_win |-> IF game_net >= 0 THEN Max(acc.biggest_win, game_net)
                     ELSE acc.biggest_win,
     games_down |-> IF game_net < 0 THEN acc.games_down + 1 ELSE acc.games_down,
     biggest_loss |-> IF game_net < 0 THEN Min(acc.biggest_loss, game_net)
                      ELSE acc.biggest_loss,
     total_net |-> acc.total_net + game_net]

\* the body of the loop over sorted_stats
ReplayStep(acc, game_net) ==
    [cumulative_net |-> acc.cumulative_net + game_net,
     highest_net |-> Max(acc.highest_net, acc.cumulative_net + game_net),
     lowest_net |-> Min(acc.lowest_net, acc.cumulative_net + game_net),
     games_up |-> IF game_net > 0 THEN acc.games_up + 1 ELSE acc.games_up,
     biggest_win |-> IF game_net > 0 THEN Max(acc.biggest_win, game_net)
                     ELSE acc.biggest_win,
     games_down |-> IF game_net < 0 THEN acc.games_down + 1 ELSE acc.games_down,
     biggest_loss |-> IF game_net < 0 THEN Min(acc.biggest_loss, game_net)
                      ELSE acc.biggest_loss,
     total_net |-> acc.total_net + game_net]

\* the loop over sorted_stats
RECURSIVE Replay(_, _, _)
Replay(sorted_stats, i, acc) ==
    IF i > Len(sorted_stats) THEN acc
    ELSE Replay(sorted_stats, i + 1, ReplayStep(acc, sorted_stats[i].net))

ReplayStart ==
    [cumulative_net |-> 0, highest_net |-> 0, lowest_net |-> 0, games_up |-> 0,
     biggest_win |-> 0, games_down |-> 0, biggest_loss |-> 0, total_net |-> 0]

\* The reset leaves the rolling extrema as they are
ResetPlayerKeepsExtrema(player) ==
    [player EXCEPT !.net = 0, !.games_up = 0, !.games_down = 0, !.average_net = Zero,
                   !.biggest_win = 0, !.biggest_loss = 0]

\* No games, reset stats to zero
ResetPlayer(player) ==
    [player EXCEPT !.net = 0, !.games_up = 0, !.games_down = 0, !.average_net = Zero,
                   !.biggest_win = 0, !.biggest_loss = 0, !.highest_net = 0,
                   !.lowest_net = 0]

\* The totals are added to the stored ones
UpdatedPlayerAccumulating(player, r, total_games) ==
    [player EXCEPT !.net = @ + r.total_net,
                   !.games_up = @ + r.games_up,
                   !.games_down = @ + r.games_down,
                   !.average_net = Quotient(r.total_net, total_games),
                   !.biggest_win = Max(@, r.biggest_win),
                   !.biggest_loss = Min(@, r.biggest_loss),
                   !.highest_net = Max(@, r.highest_net),
                   !.lowest_net = Min(@, r.lowest_net)]

\* The average is taken over the games won or lost
UpdatedPlayerAverageOfDecided(player, r, total_games) ==
    [player EXCEPT !.net = r.total_net,
                   !.games_up = r.games_up,
                   !.games_down = r.games_down,
                   !.average_net = IF r.games_up + r.games_down = 0 THEN Zero
                                   ELSE Quotient(r.total_net, r.games_up + r.games_down),
                   !.biggest_win = r.biggest_win,
                   !.biggest_loss = r.biggest_loss,
                   !.highest_net = r.highest_net,
                   !.lowest_net = r.lowest_net]

\* The rating is rewritten with the aggregates
UpdatedPlayerRerated(player, r, total_games) ==
    [player EXCEPT !.net = r.total_net,
                   !.games_up = r.games_up,
                   !.games_down = r.games_down,
                   !.average_net = Quotient(r.total_net, total_games),
                   !.biggest_win = r.biggest_win,
                   !.biggest_loss = r.biggest_loss,
                   !.highest_net = r.highest_net,
                   !.lowest_net = r.lowest_net,
                   !.putr = "0.0"]

\* The record is built anew from the name, the flag and the rating
UpdatedPlayerRecreated(player, r, total_games) ==
    [name |-> player.name, player_id_str |-> "", flag |-> player.flag,
     putr |-> player.putr, net |-> r.total_net, biggest_win |-> r.biggest_win,
     biggest_loss |-> r.biggest_loss, highest_net |-> r.highest_net,
     lowest_net |-> r.lowest_net, games_up |-> r.games_up,
     games_down |-> r.games_down, average_net |-> Quotient(r.total_net, total_games)]

\* Update player record: the loop's totals r, the average over total_games
UpdatedPlayer(player, r, total_games) ==
    [player EXCEPT !.net = r.total_net,
                   !.games_up = r.games_up,
                   !.games_down = r.games_down,
                   !.average_net = Quotient(r.total_net, total_games),
                   !.biggest_win = r.biggest_win,
                   !.biggest_loss = r.biggest_loss,
                   !.highest_net = r.highest_net,
                   !.lowest_net = r.lowest_net]

\* recalculate_player_stats: [err, S]; err # "" is the exception it raised
recalculate_player_stats(S, player_id) ==
    LET Update(r, total_games) ==
            [err |-> "",
             S |-> [S EXCEPT !.players[player_id] = UpdatedPlayer(@, r, total_games)]]
        \* the sort raises what parse_date_str raises on the first row it rejects
        Raise(stats_with_games, bad) ==
            [err |-> parse_date_str(
                        stats_with_games[CHOOSE i \in bad : \A j \in bad : i <= j]
                            .date_str).err,
             S |-> S]
        SortAndReplay(stats_with_games, bad) ==
            IF bad # {} THEN Raise(stats_with_games, bad)
            ELSE Update(Replay(SortedByDate(stats_with_games), 1, ReplayStart),
                        Len(stats_with_games))
        Recalculate(stats_with_games) ==
            IF Len(stats_with_games) = 0
            THEN [err |-> "", S |-> [S EXCEPT !.players[player_id] = ResetPlayer(@)]]
            ELSE SortAndReplay(stats_with_games,
                    {i \in 1..Len(stats_with_games) :
                        parse_date_str(stats_with_games[i].date_str).err # ""})
    IN  IF player_id \notin DOMAIN S.players THEN [err |-> "", S |-> S]
        ELSE Recalculate(get_player_stats_with_games(S, player_id))

----------------------------------------------------------------------------
(* Import orchestrator *)

None == 0   \* no player

\* The lookup of an earlier revision: the external id first, then the alias,
\* then the canonical name
FindPlayerWithFallbacks(row) ==
    LET by_id == {p \in DOMAIN players :
                    row.player_id # "" /\ players[p].player_id_str = row.player_id}
        nickname_obj == {a \in nicknames : a.nickname = row.player_nickname}
        by_name == {p \in DOMAIN players : players[p].name = row.player_nickname}
    IN  IF by_id # {} THEN CHOOSE p \in by_id : TRUE
        ELSE IF nickname_obj # {} THEN (CHOOSE a \in nickname_obj : TRUE).player_id
        ELSE IF by_name # {} THEN CHOOSE p \in by_name : TRUE
        ELSE None

\* find_player_by_nickname: the alias's owner, or None
find_player_by_nickname(row) ==
    LET nickname_obj == {a \in nicknames : a.nickname = row.player_nickname}
    IN  IF nickname_obj # {}
        THEN (CHOOSE a \in nickname_obj : TRUE).player_id
        ELSE None

\* Validation that stops at the first row
ValidateFirstRowOnly(rows) ==
    LET found == [i \in 1..Len(rows) |-> find_player_by_nickname(rows[i])]
    IN  [ok |-> Len(rows) = 0 \/ found[1] # None, players |-> found]

\* _validate_ledger_nicknames: [ok, players]; not ok is the None it returns
_validate_ledger_nicknames(rows) ==
    LET found == [i \in 1..Len(rows) |-> find_player_by_nickname(rows[i])]
        missing_nicknames == {i \in 1..Len(rows) : found[i] = None}
    IN  [ok |-> missing_nicknames = {}, players |-> found]

\* Path.stem: the name without its extension
Stem(name) == SubSeq(name, 1, Len(name) - 1)

\* csv_file.stem.replace("ledger", "")
DateStrOf(name) == SelectSeq(Stem(name), LAMBDA t : t # "ledger")

\* No existence check at all
GameExistsUnchecked(S, date_str) == FALSE

\* A Game counts as existing only once it owns ledger entries
GameExistsWithEntries(S, date_str) ==
    \E i \in 1..Len(S.games) :
        /\ S.games[i].date_str = date_str
        /\ \E j \in 1..Len(S.entries) : S.entries[j].game_id = S.games[i].id

\* The existence check reads the committed table, not the session
GameExistsCommitted(S, date_str) ==
    \E i \in 1..Len(games) : games[i].date_str = date_str

\* select(Game).where(Game.date_str == date_str).first(), run on the session
GameExists(S, date_str) ==
    \E i \in 1..Len(S.games) : S.games[i].date_str = date_str

\* select(LedgerEntry).where(LedgerEntry.game_id == game_id).first()
HasLedgerEntries(S, game_id) ==
    \E i \in 1..Len(S.entries) : S.entries[i].game_id = game_id

\* No check for an existing row
ExistingStatsNever(S, player_id, game_id) == FALSE

\* The check forgets the player
ExistingStatsAnyPlayer(S, player_id, game_id) ==
    \E j \in 1..Len(S.stats) : S.stats[j].game_id = game_id

\* The query does not see what the session has not committed
ExistingStatsCommitted(S, player_id, game_id) ==
    \E j \in 1..Len(stats) :
        /\ stats[j].player_id = player_id
        /\ stats[j].game_id = game_id

\* select(PlayerGameStats).where(player_id == ..., game_id == ...).first(); the
\* query flushes the session first, so rows added for earlier rows are seen
ExistingStats(S, player_id, game_id) ==
    \E j \in 1..Len(S.stats) :
        /\ S.stats[j].player_id = player_id
        /\ S.stats[j].game_id = game_id

\* A player keeps one row: the new row takes the place of the row the player
\* has for another game
AddStatsReplacingPlayers(S, player_id, game_id, net) ==
    IF \E j \in 1..Len(S.stats) : S.stats[j].player_id = player_id
    THEN [S EXCEPT !.stats = [j \in 1..Len(S.stats) |->
                                IF S.stats[j].player_id = player_id
                                THEN [player_id |-> player_id, game_id |-> game_id,
                                      net |-> net]
                                ELSE S.stats[j]]]
    ELSE [S EXCEPT !.stats = Append(@, [player_id |-> player_id, game_id |-> game_id,
                                        net |-> net])]

\* stats = PlayerGameStats(...); session.add(stats)
AddStats(S, player_id, game_id, net) ==
    [S EXCEPT !.stats = Append(@, [player_id |-> player_id, game_id |-> game_id,
                                   net |-> net])]

\* The second pass, from row i on: [err, S, affected]; err # "" is the
\* ValueError of a numeric cell float() rejects, raised at that row
RECURSIVE ImportRows(_, _, _, _, _, _)
ImportRows(S, game_id, rows, found, i, affected) ==
    IF i > Len(rows) THEN [err |-> "", S |-> S, affected |-> affected]
    ELSE
    LET row == rows[i]
        player_id == found[i]
        net == _parse_float(row.net)
        existing_stats == ExistingStats(S, player_id, game_id)
        S1 == IF existing_stats THEN S ELSE AddStats(S, player_id, game_id, net.val)
        affected1 == IF existing_stats THEN affected ELSE affected \cup {player_id}
        buy_in == _parse_float(row.buy_in)
        buy_out == _parse_float(row.buy_out)
        stack == _parse_float(row.stack)
        S2 == [S1 EXCEPT !.entries = Append(@,
                  [game_id |-> game_id, player_id |-> player_id,
                   player_nickname |-> row.player_nickname,
                   player_id_csv |-> row.player_id,
                   buy_in |-> buy_in.val, buy_out |-> buy_out.val,
                   stack |-> stack.val, net |-> net.val])]
    IN  IF ~net.ok THEN [err |-> "ValueError", S |-> S, affected |-> affected]
        ELSE IF ~(buy_in.ok /\ buy_out.ok /\ stack.ok)
        THEN [err |-> "ValueError", S |-> S1, affected |-> affected1]
        ELSE ImportRows(S2, game_id, rows, found, i + 1, affected1)

\* for player_id in affected_player_ids: recalculate_player_stats(...)
RECURSIVE RecalculateAffected(_, _)
RecalculateAffected(S, affected) ==
    IF affected = {} THEN [err |-> "", S |-> S]
    ELSE LET player_id == CHOOSE p \in affected : \A q \in affected : p <= q
             Continue(r) ==
                 IF r.err # "" THEN r
                 ELSE RecalculateAffected(r.S, affected \ {player_id})
         IN  Continue(recalculate_player_stats(S, player_id))

\* The existence check runs before the nicknames are validated
ImportCheckingGameFirst(S, f) ==
    LET date_str == DateStrOf(f.name)
        game_id == Len(S.games) + 1
        S1 == [S EXCEPT !.games = Append(@, [id |-> game_id, date_str |-> date_str,
                                             ledger_filename |-> f.name])]
        Finish(recalculated) ==
            IF recalculated.err # ""
            THEN [result |-> recalculated.err, S |-> recalculated.S]
            ELSE [result |-> "SUCCESS", S |-> recalculated.S]
        Recalculate(imported) ==
            IF imported.err # ""
            THEN [result |-> imported.err, S |-> imported.S]
            ELSE Finish(RecalculateAffected(imported.S, imported.affected))
        Import(validation_result) ==
            IF GameExists(S, date_str)
            THEN [result |-> "GAME_EXISTS", S |-> S]
            ELSE IF ~validation_result.ok
            THEN [result |-> "MISSING_NICKNAMES", S |-> S]
            ELSE Recalculate(ImportRows(S1, game_id, f.rows,
                                        validation_result.players, 1, {}))
    IN  Import(_validate_ledger_nicknames(f.rows))

\* import_single_ledger on session S: [result, S], result an ImportResult or
\* the exception raised; S is the session as the call leaves it
import_single_ledger(S, f) ==
    LET date_str == DateStrOf(f.name)
        game_id == Len(S.games) + 1
        S1 == [S EXCEPT !.games = Append(@, [id |-> game_id, date_str |-> date_str,
                                             ledger_filename |-> f.name])]
        \* after the recalculation loop
        Finish(recalculated) ==
            IF recalculated.err # ""
            THEN [result |-> recalculated.err, S |-> recalculated.S]
            ELSE [result |-> "SUCCESS", S |-> recalculated.S]
        \* after the second pass
        Recalculate(imported) ==
            IF imported.err # ""
            THEN [result |-> imported.err, S |-> imported.S]
            ELSE Finish(RecalculateAffected(imported.S, imported.affected))
        \* after the first pass
        Import(validation_result) ==
            IF ~validation_result.ok
            THEN [result |-> "MISSING_NICKNAMES", S |-> S]
            ELSE IF GameExists(S, date_str)
            THEN [result |-> "GAME_EXISTS", S |-> S]
            ELSE IF HasLedgerEntries(S1, game_id)
            THEN [result |-> "GAME_EXISTS", S |-> S1]
            ELSE Recalculate(ImportRows(S1, game_id, f.rows,
                                        validation_result.players, 1, {}))
    IN  Import(_validate_ledger_nicknames(f.rows))

ImportResult == {"SUCCESS", "GAME_EXISTS", "MISSING_NICKNAMES"}

----------------------------------------------------------------------------
(* The store *)

Store == [games |-> games, stats |-> stats, entries |-> entries, players |-> players]

Commit(S) ==
    /\ games' = S.games
    /\ stats' = S.stats
    /\ entries' = S.entries
    /\ players' = S.players

Rollback == UNCHANGED <<games, stats, entries, players>>

NewPlayer(name, flag, putr) ==
    [name |-> name, player_id_str |-> "", flag |-> flag, putr |-> putr,
     net |-> 0, biggest_win |-> 0, biggest_loss |-> 0, highest_net |-> 0,
     lowest_net |-> 0, games_up |-> 0, games_down |-> 0, average_net |-> Zero]

NoFile == [name |-> <<>>, rows |-> <<>>]

\* The store after add_records on an empty database: two players, the first
\* with two aliases
Seeded ==
    /\ games = <<>>
    /\ stats = <<>>
    /\ entries = <<>>
    /\ players = (1 :> NewPlayer("Alice", "us", "5.0")) @@ (2 :> NewPlayer("Bob", "ca", "UR"))
    /\ nicknames = {[nickname |-> "al", player_name |-> "Alice", player_id |-> 1],
                    [nickname |-> "ally", player_name |-> "Alice", player_id |-> 1],
                    [nickname |-> "bob", player_name |-> "Bob", player_id |-> 2]}

Init ==
    /\ Seeded
    /\ op = "init"
    /\ file = NoFile
    /\ result = "none"
    /\ status = "none"
    /\ batch_log = <<>>
    /\ sessions = <<>>

----------------------------------------------------------------------------
(* Inputs *)

\* Rows a ledger may hold.  "al" and "ally" are aliases of player 1, "bob" of
\* player 2, "ghost" of nobody.
r_al == Row("al", "id1", Num(2), Num(5), Num(7), Num(7))
r_ally == Row("ally", "id1", Num(-2), Num(5), Num(3), Num(3))
r_bob == Row("bob", "id2", Num(-2), Empty, Blank, Missing)
r_ghost == Row("ghost", "id3", Num(1), Num(5), Num(6), Num(6))
r_bad_net == Row("bob", "id2", Bad, Num(5), Num(5), Num(5))
r_bad_buy_in == Row("bob", "id2", Num(-2), Bad, Num(3), Num(3))
r_bad_buy_out == Row("bob", "id2", Num(-2), Num(5), Bad, Num(3))
r_bad_stack == Row("bob", "id2", Blank, Num(5), Num(5), Bad)

\* The contents ledgers are drawn from: no row, one player, two players (zero
\* sum), the same player twice, an unknown nickname (alone, after a good row),
\* a malformed number in each numeric column (first row, after a good row),
\* both defects at once
Catalogue ==
    {<<>>, <<r_al>>, <<r_ally>>, <<r_bob>>, <<r_al, r_bob>>, <<r_al, r_ally>>,
     <<r_ghost>>, <<r_al, r_ghost>>,
     <<r_bad_net>>, <<r_al, r_bad_buy_in>>, <<r_al, r_bad_buy_out>>,
     <<r_al, r_bad_stack>>, <<r_ghost, r_bad_net>>,
     <<r_al, r_bob, r_ally>>, <<r_al, r_bob, r_ghost>>, <<r_al, r_bob, r_bad_net>>}

Contents == {rows \in Catalogue : Len(rows) <= MaxRows}

\* Uploaded file names: the first and the second game of a day, and one whose
\* key has two parts
Names ==
    {<<"ledger", "23", "_", "10", "_", "07", ".csv">>,
     <<"ledger", "23", "_", "10", "_", "07", "(", "1", ")", ".csv">>,
     <<"ledger", "23", "_", "10", ".csv">>}

NotCsv == [name |-> <<"ledger", "23", "_", "10", "_", "07", ".txt">>, rows |-> <<r_al>>]

Files == {[name |-> n, rows |-> rows] : n \in Names, rows \in Contents} \cup {NoFile, NotCsv}

\* A ledgers directory holds files of distinct names; two of the names reduce
\* to the same key
BatchNames ==
    {<<"ledger", "23", "_", "10", "_", "07", ".csv">>,
     <<"23", "_", "10", "_", "07", ".csv">>,
     <<"ledger", "23", "_", "10", "_", "07", "(", "1", ")", ".csv">>}

BatchContents == {<<>>, <<r_al>>, <<r_ghost>>, <<r_bad_net>>}

BatchFiles ==
    {[name |-> n, rows |-> rows] : n \in BatchNames, rows \in BatchContents} \cup {NotCsv}

Directories ==
    {d \in SUBSET BatchFiles :
        /\ Cardinality(d) <= MaxBatch
        /\ \A f \in d : \A g \in d : f.name = g.name => f = g}

----------------------------------------------------------------------------
(* Handlers *)

\* Every exit of a session commits what it holds
SessionEndAlwaysCommits(r) == r.S

\* with Session(engine) as session: ...; session.commit().  The tables as the
\* block leaves them: committed when the import returned, the store's own
\* when it raised
SessionEnd(r) == IF r.result \in ImportResult THEN r.S ELSE Store

\* process_uploaded_file: the import and the commit in one session.  Writing
\* the upload to the ledgers directory is taken to succeed.
process_uploaded_file(f) ==
    /\ op' = "upload"
    /\ file' = f
    /\ batch_log' = <<>>
    /\ UNCHANGED <<nicknames, sessions>>
    /\ IF Len(f.name) = 0 \/ f.name[Len(f.name)] # ".csv"
       THEN /\ result' = "none"
            /\ status' = "error"
            /\ Rollback
       ELSE \E r \in {import_single_ledger(Store, f)} :
                \E S \in {SessionEnd(r)} :
                    /\ Len(S.games) <= MaxGames
                    /\ result' = r.result
                    /\ status' = CASE r.result = "SUCCESS" -> "success"
                                   [] r.result = "GAME_EXISTS" -> "skipped"
                                   [] OTHER -> "error"
                    /\ Commit(S)

Upload == \E f \in Files : process_uploaded_file(f)

\* Order of file names as text: tokens compare by their characters' codes
TokenRank(t) ==
    CASE t = "(" -> 40 [] t = ")" -> 41 [] t \in {".csv", ".txt"} -> 46
      [] t \in NumTokens -> 100 + TokenValue(t) * (IF TokenDigits(t) = 1 THEN 10 ELSE 1)
      [] t = "_" -> 295 [] OTHER -> 308

RECURSIVE NameLess(_, _)
NameLess(a, b) ==
    IF Len(b) = 0 THEN FALSE
    ELSE IF Len(a) = 0 THEN TRUE
    ELSE IF TokenRank(a[1]) # TokenRank(b[1]) THEN TokenRank(a[1]) < TokenRank(b[1])
    ELSE NameLess(Tail(a), Tail(b))

\* sorted(ledgers_path.glob("*.csv"))
RECURSIVE Sorted(_)
Sorted(d) ==
    IF d = {} THEN <<>>
    ELSE LET first == CHOOSE f \in d : \A g \in d \ {f} : NameLess(f.name, g.name)
         IN  <<first>> \o Sorted(d \ {first})

Glob(d) == {f \in d : Len(f.name) > 0 /\ f.name[Len(f.name)] = ".csv"}

\* The loop of import_all_ledgers over csv_files from file i on, in one
\* session: [err, S, log]; an exception ends the loop
RECURSIVE ImportEach(_, _, _, _)
ImportEach(S, csv_files, i, log) ==
    IF i > Len(csv_files) THEN [err |-> "", S |-> S, log |-> log]
    ELSE LET Log(r) == Append(log, [name |-> csv_files[i].name, result |-> r.result])
             Continue(r) ==
                 IF r.result \in ImportResult
                 THEN ImportEach(r.S, csv_files, i + 1, Log(r))
                 ELSE [err |-> r.result, S |-> r.S, log |-> Log(r)]
         IN  Continue(import_single_ledger(S, csv_files[i]))

\* import_all_ledgers: every file in one session, one commit after the last
import_all_ledgers(exists, d) ==
    /\ op' = "batch"
    /\ file' = NoFile
    /\ result' = "none"
    /\ UNCHANGED <<nicknames, sessions>>
    /\ IF ~exists
       THEN /\ status' = "no_directory"
            /\ batch_log' = <<>>
            /\ Rollback
       ELSE \E r \in {ImportEach(Store, Sorted(Glob(d)), 1, <<>>)} :
                /\ batch_log' = r.log
                /\ IF r.err = ""
                   THEN /\ Len(r.S.games) <= MaxGames
                        /\ status' = "committed"
                        /\ Commit(r.S)
                   ELSE /\ status' = "raised"
                        /\ Rollback

ImportAll ==
    \/ import_all_ledgers(FALSE, {})
    \/ \E d \in Directories : import_all_ledgers(TRUE, d)

UploadOne == \E f \in BatchFiles : process_uploaded_file(f)

Next == Upload

Spec == Init /\ [][Next]_vars

NextBatch == UploadOne \/ ImportAll

SpecBatch == Init /\ [][NextBatch]_vars

----------------------------------------------------------------------------
(* parse_date_str on its own *)

\* The parts of a key: numbers, a word, the empty string
KeyParts == {<<"23">>, <<"10">>, <<"07">>, <<"13">>, <<"x">>, <<>>}

RECURSIVE Joined(_)
Joined(parts) ==
    IF Len(parts) = 1 THEN parts[1]
    ELSE parts[1] \o <<"_">> \o Joined(Tail(parts))

\* What may follow the date portion: nothing, a sequence number, a word, an
\* hour no day has, an empty or an unclosed suffix
KeySuffixes ==
    {<<>>, <<"(", "1", ")">>, <<"(", "x", ")">>, <<"(", "24", ")">>, <<"(", ")">>,
     <<"(", "2">>}

DateStrs ==
    {Joined(parts) \o suffix :
        parts \in UNION {[1..n -> KeyParts] : n \in 1..MaxKeyParts},
        suffix \in KeySuffixes}

\* A caller holds a key
InitParse ==
    /\ Seeded
    /\ op = "init"
    /\ \E date_str \in DateStrs : file = [name |-> date_str, rows |-> <<>>]
    /\ result = "none"
    /\ status = "none"
    /\ batch_log = <<>>
    /\ sessions = <<>>

\* and hands it to parse_date_str, which returns a datetime or raises
Parse ==
    /\ op = "init"
    /\ op' = "parse"
    /\ \E r \in {parse_date_str(file.name)} :
          /\ result' = IF r.err = "" THEN "returned" ELSE r.err
          /\ batch_log' = IF r.err = "" THEN <<r.key>> ELSE <<>>
    /\ status' = "none"
    /\ Rollback
    /\ UNCHANGED <<nicknames, file, sessions>>

NextParse == Parse

SpecParse == InitParse /\ [][NextParse]_vars

----------------------------------------------------------------------------
(* The stats engine on its own *)

k_07 == <<"23", "_", "10", "_", "07">>
k_07_0 == k_07 \o <<"(", "0", ")">>
k_07_1 == k_07 \o <<"(", "1", ")">>
k_07_2 == k_07 \o <<"(", "2", ")">>
k_07_24 == k_07 \o <<"(", "24", ")">>
k_09 == <<"23", "_", "10", "_", "09">>
k_26_2 == <<"23", "_", "09", "_", "26", "(", "2", ")">>
k_short == <<"23", "_", "10">>
k_word == <<"23", "_", "x", "_", "07">>

Played(date_str, net) == [date_str |-> date_str, net |-> net]

\* every order in which the games of a set can have been inserted
Orders(G) == {h \in [1..Cardinality(G) -> G] : \A i, j \in DOMAIN h : h[i] = h[j] => i = j}

\* Game histories of player 1, in insertion order: none; three games of one
\* day; three days, the earliest with the highest sequence number; games of
\* net zero; two keys of one day and sequence; an hour no day has; keys that
\* do not parse; four games
Histories ==
    {h \in
        {<<>>}
        \cup Orders({Played(k_07, 50), Played(k_07_1, 100), Played(k_07_2, -75)})
        \cup Orders({Played(k_26_2, -100), Played(k_07, 200), Played(k_09, -50)})
        \cup {<<Played(k_07, 0)>>, <<Played(k_07, 0), Played(k_09, 5), Played(k_07_1, -3)>>}
        \cup Orders({Played(k_07, 50), Played(k_07_0, -75)})
        \cup Orders({Played(k_07, 5), Played(k_07_24, 3)})
        \cup {<<Played(k_short, 1)>>, <<Played(k_word, 1)>>, <<Played(k_07, 5), Played(k_short, 1)>>}
        \cup Orders({Played(k_short, 1), Played(k_word, 1)})
        \cup Orders({Played(k_26_2, -100), Played(k_07, 200), Played(k_07_1, 50),
                     Played(k_09, -50)}) :
     Len(h) <= MaxHistory}

\* Aggregates that no history of the catalogue produces
Stale(pl) ==
    [pl EXCEPT !.net = 999, !.games_up = 9, !.games_down = 9,
               !.average_net = [num |-> 111, den |-> 1], !.biggest_win = 999,
               !.biggest_loss = -999, !.highest_net = 999, !.lowest_net = -999]

\* The store holding n players and the history h of player 1; player 2 sat in
\* the game inserted first
StoredPlayers(n, stale) ==
    [i \in 1..n |->
        (IF stale THEN Stale(NewPlayer("Player" \o ToString(i), "us", "UR"))
         ELSE NewPlayer("Player" \o ToString(i), "us", "UR"))]

StoredGames(h) ==
    [i \in 1..Len(h) |->
        [id |-> i, date_str |-> h[i].date_str,
         ledger_filename |-> <<"ledger">> \o h[i].date_str \o <<".csv">>]]

StoredStats(h) ==
    [i \in 1..Len(h) |-> [player_id |-> 1, game_id |-> i, net |-> h[i].net]]
    \o (IF Len(h) > 0 THEN <<[player_id |-> 2, game_id |-> 1, net |-> -h[1].net]>>
        ELSE <<>>)

StoredEntries(st) ==
    [i \in 1..Len(st) |->
        [game_id |-> st[i].game_id, player_id |-> st[i].player_id,
         player_nickname |-> IF st[i].player_id = 1 THEN "al" ELSE "bob",
         player_id_csv |-> "", buy_in |-> 0, buy_out |-> 0, stack |-> 0,
         net |-> st[i].net]]

\* Sizes of the Player table: empty, the seeded two, one page less one, a
\* page, a page and one, two pages
limit == 100

PlayerCounts(h) ==
    IF Len(h) = 0 THEN {0, 2, limit - 1, limit, limit + 1, 2 * limit}
    ELSE IF h = <<Played(k_07_1, 100), Played(k_07, 50), Played(k_07_2, -75)>>
    THEN {2, limit + 1}
    ELSE {2}

InitRecalc ==
    /\ \E h \in Histories : \E n \in PlayerCounts(h) : \E stale \in BOOLEAN :
          /\ games = StoredGames(h)
          /\ stats = StoredStats(h)
          /\ entries = StoredEntries(StoredStats(h))
          /\ players = StoredPlayers(n, stale)
    /\ nicknames = {[nickname |-> "al", player_name |-> "Player1", player_id |-> 1],
                    [nickname |-> "bob", player_name |-> "Player2", player_id |-> 2]}
    /\ op = "init"
    /\ file = NoFile
    /\ result = "none"
    /\ status = "none"
    /\ batch_log = <<>>
    /\ sessions = <<>>

\* A caller runs recalculate_player_stats in a session and commits when it
\* returns
Recalculate(player_id) ==
    /\ op' = "recalc"
    /\ file' = NoFile
    /\ batch_log' = <<player_id>>
    /\ UNCHANGED <<nicknames, sessions>>
    /\ \E r \in {recalculate_player_stats(Store, player_id)} :
          /\ result' = IF r.err = "" THEN "returned" ELSE r.err
          /\ status' = IF r.err # "" THEN "raised"
                        ELSE IF r.S = Store THEN "unchanged" ELSE "changed"
          /\ IF r.err = "" THEN Commit(r.S) ELSE Rollback

\* select(Player).offset(offset).limit(limit) over the table as the scan
\* returns it: the ids of the records, None for a record without one
get_all_players(scan, offset, lim) ==
    SubSeq(scan, offset + 1, Min(offset + lim, Len(scan)))

\* The scan after player_id's row was rewritten: the new row version is found
\* where the old one was, or after every other row
Rewritten(scan, player_id, moved) ==
    IF moved
    THEN SelectSeq(scan, LAMBDA q : q # player_id) \o <<player_id>>
    ELSE scan

\* One iteration of "for player in players" on the loop's state
\* [err, S, scan, log]: a record without an id is passed over; err # "" is
\* the exception that ended the loop
RecalculateOne(st, player_id, moved) ==
    IF st.err # "" \/ player_id = None THEN st
    ELSE LET Continue(r) ==
                 IF r.err # "" THEN [st EXCEPT !.err = r.err]
                 ELSE [err |-> "",
                       S |-> r.S,
                       scan |-> IF r.S = st.S THEN st.scan
                                ELSE Rewritten(st.scan, player_id, moved),
                       log |-> Append(st.log, player_id)]
         IN  Continue(recalculate_player_stats(st.S, player_id))

\* for player in players: the iterations lo..hi in their order.  The first
\* half is evaluated to a value, then the second half runs from it, which
\* keeps the evaluation shallow for a page of a hundred players.
RECURSIVE RecalculatePage(_, _, _, _, _)
RecalculatePage(st, page, lo, hi, moved) ==
    IF lo > hi THEN st
    ELSE IF lo = hi THEN RecalculateOne(st, page[lo], moved)
    ELSE CHOOSE last \in
            {RecalculatePage(first, page, (lo + hi) \div 2 + 1, hi, moved) :
                first \in {RecalculatePage(st, page, lo, (lo + hi) \div 2, moved)}} :
            TRUE

\* recalculate_all_player_stats from the page at offset on: [err, S, scan, log]
RECURSIVE recalculate_all_player_stats(_, _, _)
recalculate_all_player_stats(st, offset, moved) ==
    LET Continue(page, r) ==
            IF r.err # "" \/ Len(page) < limit THEN r
            ELSE recalculate_all_player_stats(r, offset + limit, moved)
        Process(page) ==
            IF Len(page) = 0 THEN st
            ELSE Continue(page, RecalculatePage(st, page, 1, Len(page), moved))
    IN  Process(get_all_players(st.scan, offset, limit))

\* The Player table as a scan without ORDER BY returns it before the first
\* rewrite: in id order.  No stored record lacks an id; the loop provides for
\* one, and the second variant puts one between the two seeded players.
Scans ==
    LET ids == [i \in 1..Cardinality(DOMAIN players) |-> i]
    IN  {ids} \cup (IF Len(ids) = 2 THEN {<<ids[1], None, ids[2]>>} ELSE {})

\* A caller runs recalculate_all_player_stats in a session and commits when
\* it returns
RecalculateAll ==
    /\ op' = "recalc_all"
    /\ file' = NoFile
    /\ UNCHANGED <<nicknames, sessions>>
    /\ \E scan \in Scans : \E moved \in BOOLEAN :
        \E r \in {recalculate_all_player_stats(
                    [err |-> "", S |-> Store, scan |-> scan, log |-> <<>>], 0, moved)} :
          /\ result' = IF r.err = "" THEN "returned" ELSE r.err
          /\ status' = IF r.err # "" THEN "raised"
                        ELSE IF r.S = Store THEN "unchanged" ELSE "changed"
          /\ batch_log' = r.log
          /\ IF r.err = "" THEN Commit(r.S) ELSE Rollback

NextRecalc ==
    \/ \E player_id \in {1, 2, 3} : Recalculate(player_id)
    \/ RecalculateAll

SpecRecalc == InitRecalc /\ [][NextRecalc]_vars

----------------------------------------------------------------------------
(* Uploads into a store whose players have external ids *)

\* The seeded store after player 1 was given an external id
InitResolve ==
    /\ games = <<>>
    /\ stats = <<>>
    /\ entries = <<>>
    /\ players = (1 :> [NewPlayer("Alice", "us", "5.0") EXCEPT !.player_id_str = "orig"])
                  @@ (2 :> NewPlayer("Bob", "ca", "UR"))
    /\ nicknames = {[nickname |-> "al", player_name |-> "Alice", player_id |-> 1],
                    [nickname |-> "ally", player_name |-> "Alice", player_id |-> 1],
                    [nickname |-> "bob", player_name |-> "Bob", player_id |-> 2]}
    /\ op = "init"
    /\ file = NoFile
    /\ result = "none"
    /\ status = "none"
    /\ batch_log = <<>>
    /\ sessions = <<>>

\* Rows that match a player in another way than by an alias: by the canonical
\* name, by the external id, by both (of two players)
r_name == Row("Alice", "id9", Num(1), Num(5), Num(6), Num(6))
r_ext == Row("ghost", "orig", Num(1), Num(5), Num(6), Num(6))
r_name_ext == Row("Bob", "orig", Num(-1), Num(5), Num(4), Num(4))

ResolveContents ==
    {rows \in {<<>>, <<r_al>>, <<r_bob>>, <<r_al, r_bob>>, <<r_al, r_ally>>,
               <<r_name>>, <<r_ext>>, <<r_name_ext>>, <<r_al, r_name>>,
               <<r_ext, r_bob>>, <<r_name, r_ext>>, <<r_bad_net>>,
               <<r_al, r_bob, r_name_ext>>} :
        Len(rows) <= MaxRows}

ResolveFiles == {[name |-> n, rows |-> rows] : n \in Names, rows \in ResolveContents}

NextResolve == \E f \in ResolveFiles : process_uploaded_file(f)

SpecResolve == InitResolve /\ [][NextResolve]_vars

----------------------------------------------------------------------------
(* Imports and recalculations on one store *)

NextLedger ==
    \/ UploadOne
    \/ ImportAll
    \/ \E player_id \in {1, 2, 3} : Recalculate(player_id)
    \/ RecalculateAll

SpecLedger == Init /\ [][NextLedger]_vars

----------------------------------------------------------------------------
(* Uploads of the games of one day *)

\* Keys of one day: without a sequence number, with the numbers 0 and 1
CommuteNames ==
    {<<"ledger">> \o k \o <<".csv">> : k \in {k_07, k_07_0, k_07_1}}

CommuteContents ==
    {rows \in {<<r_al>>, <<r_ally>>, <<r_bob>>, <<r_al, r_bob>>} : Len(rows) <= MaxRows}

CommuteFiles == {[name |-> n, rows |-> rows] : n \in CommuteNames, rows \in CommuteContents}

NextCommute == \E f \in CommuteFiles : process_uploaded_file(f)

SpecCommute == Init /\ [][NextCommute]_vars

----------------------------------------------------------------------------
(* Two uploads side by side *)

(***************************************************************************)
(* Each upload runs import_single_ledger in a session of its own, on a     *)
(* PostgreSQL engine at its default isolation level: a query returns the   *)
(* rows committed when it runs and the rows its own session has flushed.   *)
(* A session keeps the Player objects it loaded (its identity map) and an  *)
(* UPDATE it flushes sets the columns whose value differs from the loaded  *)
(* one; the row stays locked until the session ends.  An import is split   *)
(* where it reads the tables: the validation, the existence check with the *)
(* second pass, each recalculation, the commit.                            *)
(***************************************************************************)

Importers == {1, 2}

Idle ==
    [pc |-> "idle", file |-> NoFile, found |-> <<>>, loaded |-> <<>>, objects |-> <<>>,
     games |-> <<>>, stats |-> <<>>, entries |-> <<>>, todo |-> {}, locked |-> {},
     after |-> {}, result |-> "none"]

\* Both uploads have the same key or different keys; their games have a
\* player in common or not
RaceFiles ==
    {[name |-> <<"ledger">> \o k \o <<".csv">>, rows |-> rows] :
        k \in {k_07, k_07_1},
        rows \in {c \in {<<r_al>>, <<r_ally>>, <<r_bob>>, <<r_al, r_bob>>, <<r_ghost>>} :
                    Len(c) <= MaxRows}}

InitRace ==
    /\ Seeded
    /\ op = "init"
    /\ file = NoFile
    /\ result = "none"
    /\ status = "none"
    /\ batch_log = <<>>
    /\ sessions = [t \in Importers |-> Idle]

\* A session's queries see only the rows of the session
ViewOwnRows(s) ==
    [games |-> s.games, stats |-> s.stats, entries |-> s.entries,
     players |-> [p \in DOMAIN players |->
                    IF p \in DOMAIN s.objects THEN s.objects[p] ELSE players[p]]]

\* What session s works on: the committed rows followed by its own, and for
\* a player it has loaded the object it holds
View(s) ==
    [games |-> games \o s.games, stats |-> stats \o s.stats,
     entries |-> entries \o s.entries,
     players |-> [p \in DOMAIN players |->
                    IF p \in DOMAIN s.objects THEN s.objects[p] ELSE players[p]]]

\* the id the sequence gives the next Game
NextGameId ==
    LET ids == {0} \cup {games[i].id : i \in 1..Len(games)}
                   \cup UNION {{sessions[t].games[i].id : i \in 1..Len(sessions[t].games)} :
                                t \in Importers}
    IN  1 + CHOOSE m \in ids : \A n \in ids : n <= m

\* the players whose object differs from what was loaded and whose UPDATE
\* the session has not flushed yet
Dirty(s) == {p \in DOMAIN s.objects : s.objects[p] # s.loaded[p]} \ s.locked

\* the flush of session t waits while another session holds a row it updates
CanFlush(t) ==
    \A u \in Importers \ {t} : sessions[u].locked \cap Dirty(sessions[t]) = {}

\* UPDATE player SET <the columns that changed> WHERE id = ...
Update(row, before, after) ==
    [c \in DOMAIN row |-> IF after[c] # before[c] THEN after[c] ELSE row[c]]

\* The first pass, in a session opened for file f
Begin(t, f) ==
    /\ sessions[t].pc = "idle"
    /\ \E validation_result \in {_validate_ledger_nicknames(f.rows)} :
        \E found \in {{validation_result.players[i] : i \in 1..Len(f.rows)} \ {None}} :
          sessions' = [sessions EXCEPT ![t] =
            [@ EXCEPT !.file = f,
                      !.after = {u \in Importers : sessions[u].pc = "done"},
                      !.found = validation_result.players,
                      !.loaded = [p \in found |-> players[p]],
                      !.objects = [p \in found |-> players[p]],
                      !.pc = IF validation_result.ok THEN "validated" ELSE "done",
                      !.result = IF validation_result.ok THEN "none"
                                 ELSE "MISSING_NICKNAMES"]]
    /\ UNCHANGED <<games, stats, entries, players, nicknames, op, file, result, status,
                   batch_log>>

\* The existence check, the new Game and the second pass
CreateGame(t) ==
    /\ sessions[t].pc = "validated"
    /\ \E s \in {sessions[t]} : \E date_str \in {DateStrOf(s.file.name)} :
          IF GameExists(View(s), date_str)
          THEN sessions' = [sessions EXCEPT ![t] =
                              [@ EXCEPT !.pc = "done", !.result = "GAME_EXISTS"]]
          ELSE \E game \in {[id |-> NextGameId, date_str |-> date_str,
                              ledger_filename |-> s.file.name]} :
               \E r \in {ImportRows([View(s) EXCEPT !.games = Append(@, game)],
                                     game.id, s.file.rows, s.found, 1, {})} :
                  sessions' = [sessions EXCEPT ![t] =
                    IF r.err # ""
                    THEN [@ EXCEPT !.pc = "done", !.result = r.err]
                    ELSE [@ EXCEPT !.pc = "written",
                                   !.games = <<game>>,
                                   !.stats = SubSeq(r.S.stats, Len(stats) + 1,
                                                    Len(r.S.stats)),
                                   !.entries = SubSeq(r.S.entries, Len(entries) + 1,
                                                      Len(r.S.entries)),
                                   !.todo = r.affected]]
    /\ UNCHANGED <<games, stats, entries, players, nicknames, op, file, result, status,
                   batch_log>>

\* One iteration of the loop over affected_player_ids: the query flushes what
\* the iterations before it changed, then the player is recalculated
RecalculateNext(t) ==
    /\ sessions[t].pc = "written"
    /\ sessions[t].todo # {}
    /\ CanFlush(t)
    /\ \E s \in {sessions[t]} :
        \E player_id \in {CHOOSE p \in s.todo : \A q \in s.todo : p <= q} :
        \E r \in {recalculate_player_stats(View(s), player_id)} :
          sessions' = [sessions EXCEPT ![t] =
            IF r.err # ""
            THEN [@ EXCEPT !.pc = "done", !.result = r.err, !.locked = {}]
            ELSE [@ EXCEPT !.locked = @ \cup Dirty(s),
                           !.objects[player_id] = r.S.players[player_id],
                           !.todo = @ \ {player_id}]]
    /\ UNCHANGED <<games, stats, entries, players, nicknames, op, file, result, status,
                   batch_log>>

\* session.commit(): the flush of what is left, then the rows of the session
\* are in the tables and its locks are gone
CommitSession(t) ==
    /\ sessions[t].pc = "written"
    /\ sessions[t].todo = {}
    /\ CanFlush(t)
    /\ \E s \in {sessions[t]} :
          /\ games' = games \o s.games
          /\ stats' = stats \o s.stats
          /\ entries' = entries \o s.entries
          /\ players' = [p \in DOMAIN players |->
                            IF p \in DOMAIN s.objects
                            THEN Update(players[p], s.loaded[p], s.objects[p])
                            ELSE players[p]]
    /\ sessions' = [sessions EXCEPT ![t] =
                      [@ EXCEPT !.pc = "done", !.result = "SUCCESS", !.locked = {}]]
    /\ UNCHANGED <<nicknames, op, file, result, status, batch_log>>

NextRace ==
    \/ \E t \in Importers : \E f \in RaceFiles : Begin(t, f)
    \/ \E t \in Importers : CreateGame(t)
    \/ \E t \in Importers : RecalculateNext(t)
    \/ \E t \in Importers : CommitSession(t)

SpecRace == InitRace /\ [][NextRace]_vars

----------------------------------------------------------------------------
(* Vocabulary of the properties *)

IsCsv(f) == Len(f.name) > 0 /\ f.name[Len(f.name)] = ".csv"

\* the last handler was an upload that reached import_single_ledger
Imported(o, f) == o = "upload" /\ IsCsv(f)

Aliases == {a.nickname : a \in nicknames}

AllResolve(f) == \A i \in 1..Len(f.rows) : f.rows[i].player_nickname \in Aliases

OwnerOf(nick) == (CHOOSE a \in nicknames : a.nickname = nick).player_id

ResolvedPlayers(f) == {OwnerOf(f.rows[i].player_nickname) : i \in 1..Len(f.rows)}

NumericCells(row) == {row.net, row.buy_in, row.buy_out, row.stack}

HasMalformedNumber(f) ==
    \E i \in 1..Len(f.rows) : \E c \in NumericCells(f.rows[i]) : c.kind = "bad"

GameIds(gs, date_str) == {gs[i].id : i \in {j \in 1..Len(gs) : gs[j].date_str = date_str}}

RowsOf(table, game_ids) == {i \in 1..Len(table) : table[i].game_id \in game_ids}

StoreUnchanged == UNCHANGED <<games, stats, entries, players>>

RECURSIVE SumOver(_, _)
SumOver(F, D) ==
    IF D = {} THEN 0 ELSE LET x == CHOOSE y \in D : TRUE IN F[x] + SumOver(F, D \ {x})

----------------------------------------------------------------------------
(* Properties *)

C2_ReimportIdempotent ==
    [][(Imported(op, file) /\ result = "SUCCESS" /\ op' = "upload" /\ file' = file)
          => (result' = "GAME_EXISTS" /\ StoreUnchanged)]_vars

\* the file that created a game with rows was uploaded again and skipped
C2_Witness ==
    /\ Imported(op, file)
    /\ result = "GAME_EXISTS"
    /\ Len(file.rows) > 0
    /\ \E i \in 1..Len(games) :
          /\ games[i].date_str = DateStrOf(file.name)
          /\ games[i].ledger_filename = file.name
          /\ Cardinality(RowsOf(entries, {games[i].id})) = Len(file.rows)
          /\ \A j \in RowsOf(entries, {games[i].id}) :
                \E k \in 1..Len(file.rows) :
                    entries[j].player_nickname = file.rows[k].player_nickname

\* C3 as claimed: a SUCCESS import of N rows creates one Game, N LedgerEntry
\* rows and N PlayerGameStats rows for the key, also when two rows resolve
\* to the same player.
C3_Claimed ==
    (Imported(op, file) /\ result = "SUCCESS")
        => LET ids == GameIds(games, DateStrOf(file.name))
           IN  /\ Cardinality(ids) = 1
               /\ Cardinality(RowsOf(entries, ids)) = Len(file.rows)
               /\ Cardinality(RowsOf(stats, ids)) = Len(file.rows)

\* C3: a SUCCESS import of N rows creates one Game and N LedgerEntry rows for
\* the key, and one PlayerGameStats row for each distinct player the rows
\* resolve to (N rows when the players are pairwise distinct).
C3_OneStatsRowPerPlayer ==
    (Imported(op, file) /\ result = "SUCCESS")
        => LET ids == GameIds(games, DateStrOf(file.name))
           IN  /\ Cardinality(ids) = 1
               /\ Cardinality(RowsOf(entries, ids)) = Len(file.rows)
               /\ Cardinality(RowsOf(stats, ids)) = Cardinality(ResolvedPlayers(file))
               /\ \A p \in ResolvedPlayers(file) :
                     \E j \in RowsOf(stats, ids) : stats[j].player_id = p

\* a file with two rows of one player was imported
C3_Witness ==
    /\ Imported(op, file)
    /\ result = "SUCCESS"
    /\ Len(file.rows) = 2
    /\ Cardinality(ResolvedPlayers(file)) = 1

\* C4: a Game is a permanent skip marker.  An import of a file whose rows all
\* resolve and whose key already has a Game, with or without child rows,
\* returns GAME_EXISTS and changes no row.
C4_GameIsSkipMarker ==
    [][(/\ Imported(op', file')
        /\ AllResolve(file')
        /\ GameIds(games, DateStrOf(file'.name)) # {})
          => (result' = "GAME_EXISTS" /\ StoreUnchanged)]_vars

\* a file with rows was skipped because of a Game that owns no row
C4_Witness ==
    /\ Imported(op, file)
    /\ result = "GAME_EXISTS"
    /\ Len(file.rows) > 0
    /\ GameIds(games, DateStrOf(file.name)) # {}
    /\ RowsOf(entries, GameIds(games, DateStrOf(file.name))) = {}
    /\ RowsOf(stats, GameIds(games, DateStrOf(file.name))) = {}

\* C5: aggregate consistency.  After any sequence of committed imports every
\* player's eight aggregate fields equal the replay of the player's current
\* PlayerGameStats rows in chronological order.
StatsOf(p) == {j \in 1..Len(stats) : stats[j].player_id = p}

DateKey(j) ==
    parse_date_str(games[CHOOSE i \in 1..Len(games) :
                            games[i].id = stats[j].game_id].date_str).key

\* the player's rows played no later than row j (the store's order breaks ties)
PlayedUpTo(p, j) ==
    {i \in StatsOf(p) : DateKey(i) < DateKey(j) \/ (DateKey(i) = DateKey(j) /\ i <= j)}

NetOf == [j \in 1..Len(stats) |-> stats[j].net]

Running(p) == {SumOver(NetOf, PlayedUpTo(p, j)) : j \in StatsOf(p)}

Greatest(D) == CHOOSE x \in D : \A y \in D : y <= x
Least(D) == CHOOSE x \in D : \A y \in D : x <= y

ChronologicalReplay(p) ==
    [net |-> SumOver(NetOf, StatsOf(p)),
     games_up |-> Cardinality({j \in StatsOf(p) : stats[j].net > 0}),
     games_down |-> Cardinality({j \in StatsOf(p) : stats[j].net < 0}),
     average_net |-> IF StatsOf(p) = {} THEN Zero
                     ELSE Quotient(SumOver(NetOf, StatsOf(p)), Cardinality(StatsOf(p))),
     biggest_win |-> Greatest({0} \cup {stats[j].net : j \in StatsOf(p)}),
     biggest_loss |-> Least({0} \cup {stats[j].net : j \in StatsOf(p)}),
     highest_net |-> Greatest({0} \cup Running(p)),
     lowest_net |-> Least({0} \cup Running(p))]

Aggregates(pl) ==
    [net |-> pl.net, games_up |-> pl.games_up, games_down |-> pl.games_down,
     average_net |-> pl.average_net, biggest_win |-> pl.biggest_win,
     biggest_loss |-> pl.biggest_loss, highest_net |-> pl.highest_net,
     lowest_net |-> pl.lowest_net]

C5_AggregatesMatchReplay ==
    \A p \in DOMAIN players : Aggregates(players[p]) = ChronologicalReplay(p)

\* a player won one game and lost another, stored in the reverse of their
\* chronological order, and the other player has a game as well
C5_Witness ==
    /\ \E p \in DOMAIN players : \E i \in StatsOf(p) : \E j \in StatsOf(p) :
          i < j /\ DateKey(j) < DateKey(i) /\ stats[i].net # stats[j].net
    /\ \A p \in DOMAIN players : StatsOf(p) # {}

\* C6 as claimed: when the nets of the rows of a successfully imported file
\* sum to zero, the nets of the PlayerGameStats rows created for the game sum
\* to zero.
RowNetSum(f) ==
    SumOver([i \in 1..Len(f.rows) |-> _parse_float(f.rows[i].net).val], 1..Len(f.rows))

GameNetSum(gs, st, f) ==
    SumOver([j \in 1..Len(st) |-> st[j].net], RowsOf(st, GameIds(gs, DateStrOf(f.name))))

TotalNet(ps) == SumOver([p \in DOMAIN ps |-> ps[p].net], DOMAIN ps)

C6_Claimed ==
    (Imported(op, file) /\ result = "SUCCESS" /\ RowNetSum(file) = 0)
        => GameNetSum(games, stats, file) = 0

\* C6: zero sum.  When the rows of a successfully imported file resolve to
\* pairwise distinct players and their nets sum to zero, the nets of the
\* PlayerGameStats rows created for the game sum to zero and the sum of all
\* players' net is what it was before the import.
C6_ZeroSumDistinctPlayers ==
    [][(/\ Imported(op', file')
        /\ result' = "SUCCESS"
        /\ Cardinality(ResolvedPlayers(file')) = Len(file'.rows)
        /\ RowNetSum(file') = 0)
          => (/\ GameNetSum(games', stats', file') = 0
              /\ TotalNet(players') = TotalNet(players))]_vars

\* a two-player game with non-zero nets that cancel was imported
C6_Witness ==
    /\ Imported(op, file)
    /\ result = "SUCCESS"
    /\ Cardinality(ResolvedPlayers(file)) = 2
    /\ RowNetSum(file) = 0
    /\ \A i \in 1..Len(file.rows) : _parse_float(file.rows[i].net).val # 0
    /\ TotalNet(players) = 0
    /\ \E p \in DOMAIN players : players[p].net # 0

\* C7: in every committed state each PlayerGameStats row has a LedgerEntry of
\* the same player and game, and each LedgerEntry has such a PlayerGameStats
\* row.
C7_StatsAndEntriesPaired ==
    /\ \A j \in 1..Len(stats) : \E k \in 1..Len(entries) :
          entries[k].player_id = stats[j].player_id /\ entries[k].game_id = stats[j].game_id
    /\ \A k \in 1..Len(entries) : \E j \in 1..Len(stats) :
          entries[k].player_id = stats[j].player_id /\ entries[k].game_id = stats[j].game_id

\* an import wrote a PlayerGameStats row and then raised at the same row's
\* LedgerEntry, while the store holds rows of an earlier import
C7_Witness ==
    /\ Imported(op, file)
    /\ result = "ValueError"
    /\ \E i \in 1..Len(file.rows) :
          /\ _parse_float(file.rows[i].net).ok
          /\ \E c \in {file.rows[i].buy_in, file.rows[i].buy_out, file.rows[i].stack} :
                c.kind = "bad"
    /\ Len(stats) > 0
    /\ Len(entries) > Len(stats)

\* C8: after any sequence of uploads and batch imports no two Game rows have
\* the same date_str.
C8_DateStrUnique ==
    \A i \in 1..Len(games) : \A j \in 1..Len(games) :
        games[i].date_str = games[j].date_str => i = j

\* one batch imported a file and skipped another whose name reduces to the
\* same key
C8_Witness ==
    /\ op = "batch"
    /\ status = "committed"
    /\ Len(batch_log) = 2
    /\ batch_log[1].name # batch_log[2].name
    /\ DateStrOf(batch_log[1].name) = DateStrOf(batch_log[2].name)
    /\ batch_log[1].result = "SUCCESS"
    /\ batch_log[2].result = "GAME_EXISTS"

\* C9 as claimed: an import of a file with a malformed number in a numeric
\* column fails with a fatal error, and the upload reports status error.
C9_Claimed ==
    (Imported(op, file) /\ HasMalformedNumber(file))
        => (result = "ValueError" /\ status = "error")

\* C9: when all nicknames of a file resolve and no Game has its key, a
\* malformed number in net, buy_in, buy_out or stack of any row makes the
\* import raise, the upload reports status error, and no Game,
\* PlayerGameStats, LedgerEntry or Player row is changed.
C9_MalformedNumberAborts ==
    [][(/\ Imported(op', file')
        /\ HasMalformedNumber(file')
        /\ AllResolve(file')
        /\ GameIds(games, DateStrOf(file'.name)) = {})
          => (result' = "ValueError" /\ status' = "error" /\ StoreUnchanged)]_vars

\* the malformed number follows a good row, in a file whose key is free
C9_Witness ==
    /\ Imported(op, file)
    /\ result = "ValueError"
    /\ status = "error"
    /\ Len(file.rows) = 2
    /\ ~HasMalformedNumber([name |-> file.name, rows |-> <<file.rows[1]>>])
    /\ GameIds(games, DateStrOf(file.name)) = {}
    /\ Len(games) > 0

\* C10 as claimed: after a batch import, every file that returned SUCCESS in
\* the batch has its Game in the store, whatever happened to later files.
C10_Claimed ==
    op = "batch"
        => \A i \in 1..Len(batch_log) :
              batch_log[i].result = "SUCCESS"
                  => \E g \in 1..Len(games) :
                        games[g].ledger_filename = batch_log[i].name

\* a key of the form YY_MM_DD or YY_MM_DD(N), N a number
WellFormedKey(date_str) ==
    /\ Len(Split(Before(date_str, "("), "_")) = 3
    /\ \A i \in 1..3 : IsInt(Split(Before(date_str, "("), "_")[i])
    /\ Contains(date_str, "(") =>
          /\ date_str[Len(date_str)] = ")"
          /\ IsInt(SubSeq(After(date_str, "("), 1, Len(After(date_str, "(")) - 1))

\* C11 as claimed: an import of a file whose name does not reduce to a key
\* YY_MM_DD or YY_MM_DD(N) does not return SUCCESS, whatever its number of
\* rows, and no Game with that key is in the store.
C11_Claimed ==
    (Imported(op, file) /\ ~WellFormedKey(DateStrOf(file.name)))
        => (result # "SUCCESS" /\ GameIds(games, DateStrOf(file.name)) = {})

\* the date portion of a key splits into exactly three numeric parts
ThreeNumericParts(date_str) ==
    /\ Len(Split(Before(date_str, "("), "_")) = 3
    /\ \A i \in 1..3 : IsInt(Split(Before(date_str, "("), "_")[i])

\* C12 as claimed: parse_date_str raises ValidationError for every key whose
\* date portion does not split into exactly three numeric parts, and returns
\* no value for it.
C12_Claimed ==
    (op = "parse" /\ ~ThreeNumericParts(file.name)) => result = "ValidationError"

\* the last operation recalculated player p and returned
Recalculated(p) ==
    /\ op \in {"recalc", "recalc_all"}
    /\ result = "returned"
    /\ p \in DOMAIN players
    /\ \E i \in 1..Len(batch_log) : batch_log[i] = p

KeyOf(j) == games[CHOOSE i \in 1..Len(games) : games[i].id = stats[j].game_id].date_str

ZeroAggregates ==
    [net |-> 0, games_up |-> 0, games_down |-> 0, average_net |-> Zero,
     biggest_win |-> 0, biggest_loss |-> 0, highest_net |-> 0, lowest_net |-> 0]

\* C13: idempotence of recalculation.  A call of recalculate_player_stats
\* that follows a call for the same player, with no change in between, leaves
\* the player's eight aggregates as the first call left them.
C13_RecalculateIdempotent ==
    [][(/\ op = "recalc"
        /\ op' = "recalc"
        /\ batch_log' = batch_log
        /\ batch_log[1] \in DOMAIN players)
          => Aggregates(players'[batch_log[1]]) = Aggregates(players[batch_log[1]])]_vars

\* the second call found the aggregates of the three games of one day as the
\* first call left them; the other player still has the stale values both
\* started with
C13_Witness ==
    /\ op = "recalc"
    /\ status = "unchanged"
    /\ batch_log = <<1>>
    /\ Cardinality(StatsOf(1)) = 3
    /\ players[1].net = 75
    /\ players[1].highest_net = 150
    /\ players[2].net = 999

\* C14 as claimed: for a player whose games have pairwise distinct keys of
\* the form YY_MM_DD or YY_MM_DD(N), recalculate replays the games, and
\* highest_net and lowest_net are the same for every order in which the store
\* holds the rows.
C14_Claimed ==
    (/\ op = "recalc"
     /\ batch_log[1] \in DOMAIN players
     /\ \A j \in StatsOf(batch_log[1]) : WellFormedKey(KeyOf(j))
     /\ \A i, j \in StatsOf(batch_log[1]) : KeyOf(i) = KeyOf(j) => i = j)
        => /\ result = "returned"
           /\ \A pi \in Orders(1..Len(stats)) :
                \E r \in {recalculate_player_stats(
                            [Store EXCEPT !.stats = [i \in 1..Len(stats) |-> stats[pi[i]]]],
                            batch_log[1])} :
                    /\ r.err = ""
                    /\ r.S.players[batch_log[1]].highest_net
                          = players[batch_log[1]].highest_net
                    /\ r.S.players[batch_log[1]].lowest_net
                          = players[batch_log[1]].lowest_net

\* C15: rolling extrema.  After a recalculation of a player, highest_net is
\* the greatest of 0 and the running sums of the player's nets in
\* chronological order, lowest_net the least of them, so
\* highest_net >= 0 >= lowest_net.
C15_RollingExtrema ==
    \A p \in DOMAIN players :
        Recalculated(p)
            => /\ players[p].highest_net = Greatest({0} \cup Running(p))
               /\ players[p].lowest_net = Least({0} \cup Running(p))
               /\ players[p].highest_net >= 0
               /\ players[p].lowest_net <= 0

\* nets -100, +200, -50 of three days, stored out of their order, were
\* replayed; the other player, who only lost, keeps highest_net 0
C15_Witness ==
    /\ Recalculated(1)
    /\ Recalculated(2)
    /\ Cardinality(StatsOf(1)) = 3
    /\ \E i, j \in StatsOf(1) : i < j /\ DateKey(j) < DateKey(i)
    /\ players[1].net = 50
    /\ players[1].highest_net = 100
    /\ players[1].lowest_net = -100
    /\ players[2].net < 0
    /\ players[2].highest_net = 0

\* C16: win/loss classification.  After a recalculation of a player,
\* games_up counts the games of net > 0, games_down those of net < 0, a game
\* of net 0 counts in neither, biggest_win is the largest positive net (0 if
\* none) and biggest_loss the most negative net (0 if none).
C16_WinLoss ==
    \A p \in DOMAIN players :
        Recalculated(p)
            => /\ players[p].games_up = Cardinality({j \in StatsOf(p) : stats[j].net > 0})
               /\ players[p].games_down = Cardinality({j \in StatsOf(p) : stats[j].net < 0})
               /\ players[p].games_up + players[p].games_down <= Cardinality(StatsOf(p))
               /\ players[p].biggest_win
                     = Greatest({0} \cup {stats[j].net : j \in {i \in StatsOf(p) : stats[i].net > 0}})
               /\ players[p].biggest_loss
                     = Least({0} \cup {stats[j].net : j \in {i \in StatsOf(p) : stats[i].net < 0}})

\* a player with a game won, a game lost and a game of net zero
C16_Witness ==
    /\ Recalculated(1)
    /\ \E j \in StatsOf(1) : stats[j].net = 0
    /\ players[1].games_up = 1
    /\ players[1].games_down = 1
    /\ Cardinality(StatsOf(1)) = 3
    /\ players[1].biggest_win > 0
    /\ players[1].biggest_loss < 0

\* C17: after a recalculation of a player with at least one game, net is the
\* sum of the player's nets and average_net is net divided by the number of
\* the player's games, those of net zero included.
C17_NetAndAverage ==
    \A p \in DOMAIN players :
        (Recalculated(p) /\ StatsOf(p) # {})
            => /\ players[p].net = SumOver(NetOf, StatsOf(p))
               /\ players[p].average_net
                     = Quotient(SumOver(NetOf, StatsOf(p)), Cardinality(StatsOf(p)))

\* three games, one of net zero: net 2, average 2/3
C17_Witness ==
    /\ op = "recalc"
    /\ Recalculated(1)
    /\ \E j \in StatsOf(1) : stats[j].net = 0
    /\ players[1].net = 2
    /\ players[1].average_net = [num |-> 2, den |-> 3]

\* C18: no-games reset.  After a recalculation of a player without
\* PlayerGameStats rows every aggregate of the player is zero.
C18_NoGamesReset ==
    \A p \in DOMAIN players :
        (Recalculated(p) /\ StatsOf(p) = {}) => Aggregates(players[p]) = ZeroAggregates

\* the call reset a player without games; the other player still has the
\* stale values both started with
C18_Witness ==
    /\ op = "recalc"
    /\ status = "changed"
    /\ Recalculated(batch_log[1])
    /\ StatsOf(batch_log[1]) = {}
    /\ \E q \in DOMAIN players : q # batch_log[1] /\ players[q].net = 999

Identity(pl) ==
    [name |-> pl.name, player_id_str |-> pl.player_id_str, flag |-> pl.flag, putr |-> pl.putr]

\* C19: frame of recalculation.  recalculate_player_stats(p) leaves the
\* player's name, external id, flag and rating, every other player, and
\* every Game, PlayerGameStats, LedgerEntry and PlayerNickname row as they
\* were; for an id no player has it changes nothing and returns.
C19_RecalculateFrame ==
    [][op' = "recalc"
          => /\ games' = games
             /\ stats' = stats
             /\ entries' = entries
             /\ nicknames' = nicknames
             /\ DOMAIN players' = DOMAIN players
             /\ \A q \in DOMAIN players :
                   IF q = batch_log'[1]
                   THEN Identity(players'[q]) = Identity(players[q])
                   ELSE players'[q] = players[q]
             /\ batch_log'[1] \notin DOMAIN players
                   => (players' = players /\ result' = "returned")]_vars

\* the call rewrote the aggregates of a player with games; the rating is as
\* seeded and the other player still has stale values
C19_Witness ==
    /\ op = "recalc"
    /\ status = "changed"
    /\ batch_log[1] \in DOMAIN players
    /\ StatsOf(batch_log[1]) # {}
    /\ players[batch_log[1]].putr = "UR"
    /\ players[batch_log[1]].net # 999
    /\ \E q \in DOMAIN players : q # batch_log[1] /\ players[q].net = 999

\* C20 as claimed: a recalculate_all_player_stats that returns has
\* recalculated every player of the store exactly once, for any number of
\* players.
C20_Claimed ==
    (op = "recalc_all" /\ result = "returned")
        => \A p \in DOMAIN players :
              Cardinality({i \in 1..Len(batch_log) : batch_log[i] = p}) = 1

FirstRowOf(f, p) ==
    f.rows[CHOOSE i \in 1..Len(f.rows) :
              /\ OwnerOf(f.rows[i].player_nickname) = p
              /\ \A k \in 1..(i - 1) : OwnerOf(f.rows[k].player_nickname) # p]

\* C23: PlayerGameStats is unique per (player, game).  After any sequence of
\* imports no two PlayerGameStats rows have the same player and game; when a
\* file has several rows of one player, the player's row for the game is the
\* one of the first such row, and every row of the file has its LedgerEntry.
C23_StatsUniquePerPlayerGame ==
    /\ \A i \in 1..Len(stats) : \A j \in 1..Len(stats) :
          (stats[i].player_id = stats[j].player_id /\ stats[i].game_id = stats[j].game_id)
              => i = j
    /\ (Imported(op, file) /\ result = "SUCCESS")
          => /\ Cardinality(RowsOf(entries, GameIds(games, DateStrOf(file.name))))
                   = Len(file.rows)
             /\ \A j \in RowsOf(stats, GameIds(games, DateStrOf(file.name))) :
                   stats[j].net = _parse_float(FirstRowOf(file, stats[j].player_id).net).val

\* the second game imported has two rows of one player with different nets;
\* the player has one row in each game
C23_Witness ==
    /\ Imported(op, file)
    /\ result = "SUCCESS"
    /\ Len(games) = 2
    /\ Len(file.rows) = 2
    /\ OwnerOf(file.rows[1].player_nickname) = OwnerOf(file.rows[2].player_nickname)
    /\ file.rows[1].net # file.rows[2].net
    /\ Cardinality(StatsOf(OwnerOf(file.rows[1].player_nickname))) = 2
    /\ Cardinality(RowsOf(entries, GameIds(games, DateStrOf(file.name)))) = 2

\* the date and the sequence number a well-formed key names
DateOf(date_str) ==
    [i \in 1..3 |-> IntOf(Split(Before(date_str, "("), "_")[i])]

SequenceOf(date_str) ==
    IF Contains(date_str, "(")
    THEN IntOf(SubSeq(After(date_str, "("), 1, Len(After(date_str, "(")) - 1))
    ELSE 0

\* a well-formed key whose date portion is a day of the calendar
NamesADay(date_str) ==
    /\ WellFormedKey(date_str)
    /\ DateOf(date_str)[2] \in 1..12
    /\ DateOf(date_str)[3] \in 1..DaysInMonth(2000 + DateOf(date_str)[1], DateOf(date_str)[2])

\* (d1, N1) before (d2, N2)
KeyBefore(k1, k2) ==
    LET a == DateOf(k1) \o <<SequenceOf(k1)>>
        b == DateOf(k2) \o <<SequenceOf(k2)>>
    IN  \E i \in 1..4 : a[i] < b[i] /\ \A j \in 1..(i - 1) : a[j] = b[j]

\* keys the parsed key is compared with: the games of a day, the days around
ComparedKeys == {k_07, k_07_1, k_07_2, k_07_24, k_09, k_26_2}

\* C24 as claimed: parse_date_str returns a sort key for every well-formed
\* key of a calendar day, whatever its sequence number, and the sort keys of
\* two such keys compare as their (date, sequence number) pairs do.
C24_Claimed ==
    (op = "parse" /\ NamesADay(file.name))
        => /\ result = "returned"
           /\ \A k \in ComparedKeys :
                 /\ parse_date_str(k).err = ""
                 /\ (batch_log[1] < parse_date_str(k).key) <=> KeyBefore(file.name, k)

IsPrefix(a, b) == Len(a) <= Len(b) /\ SubSeq(b, 1, Len(a)) = a

\* C26: Game, PlayerGameStats and LedgerEntry rows are write-once.  No
\* upload, batch import, recalculation or recalculation of all players
\* changes or deletes a row of these tables that is in the store; each only
\* appends rows.
C26_WriteOnce ==
    [][/\ IsPrefix(games, games')
       /\ IsPrefix(stats, stats')
       /\ IsPrefix(entries, entries')]_vars

\* all players were recalculated on a store of two imported games, the
\* second with rows of a player who is in the first
C26_Witness ==
    /\ op = "recalc_all"
    /\ result = "returned"
    /\ Len(batch_log) = 2
    /\ Len(games) = 2
    /\ \E p \in DOMAIN players : Cardinality(StatsOf(p)) = 2
    /\ Len(entries) = Len(stats)

\* C28 as claimed: every Game in the store, each created by an import that
\* returned SUCCESS, owns at least one LedgerEntry and at least one
\* PlayerGameStats row.
C28_Claimed ==
    \A i \in 1..Len(games) :
        /\ RowsOf(entries, {games[i].id}) # {}
        /\ RowsOf(stats, {games[i].id}) # {}

\* What a store holds, whatever the ids and the order of its rows: the games,
\* the rows of each table with their game's key, the players
ContentsOf(gs, st, en, ps) ==
    LET KeyOfGame(id) == gs[CHOOSE i \in 1..Len(gs) : gs[i].id = id].date_str
    IN  [games |-> {[date_str |-> gs[i].date_str,
                     ledger_filename |-> gs[i].ledger_filename] : i \in 1..Len(gs)},
         stats |-> {[st[j] EXCEPT !.game_id = KeyOfGame(@)] : j \in 1..Len(st)},
         entries |-> {[en[j] EXCEPT !.game_id = KeyOfGame(@)] : j \in 1..Len(en)},
         players |-> ps]

\* the store with f1 and then f2 imported into the store without games
ImportedInOrder(f1, f2) ==
    LET Second(r1) == <<r1, import_single_ledger(r1.S, f2)>>
    IN  Second(import_single_ledger(
                   [games |-> <<>>, stats |-> <<>>, entries |-> <<>>,
                    players |-> [p \in DOMAIN players |-> ResetPlayer(players[p])]],
                   f1))

\* C29 as claimed: imports of different games commute.  When a file B is
\* imported after a file A of another key, both with SUCCESS, importing B
\* and then A also succeeds and gives the same games, PlayerGameStats and
\* LedgerEntry contents and the same players.
C29_Claimed ==
    [][(/\ Imported(op, file) /\ result = "SUCCESS" /\ Len(games) = 1
        /\ Imported(op', file') /\ result' = "SUCCESS")
          => \E r \in {ImportedInOrder(file', file)} :
                /\ r[1].result = "SUCCESS"
                /\ r[2].result = "SUCCESS"
                /\ ContentsOf(r[2].S.games, r[2].S.stats, r[2].S.entries, r[2].S.players)
                      = ContentsOf(games', stats', entries', players')]_vars

\* both uploads have ended
BothDone == \A t \in Importers : sessions[t].pc = "done"

\* C27 as claimed: when two uploads of fully resolvable files with the same
\* key have both ended, however their steps interleaved, at most one Game
\* has the key and the rows of the key are those of one file.
C27_Claimed ==
    BothDone
        => /\ \A i \in 1..Len(games) : \A j \in 1..Len(games) :
                 games[i].date_str = games[j].date_str => i = j
           /\ \A t \in Importers :
                 sessions[t].result = "SUCCESS"
                     => Cardinality(RowsOf(entries,
                                       GameIds(games, DateStrOf(sessions[t].file.name))))
                            = Len(sessions[t].file.rows)

\* both uploads returned SUCCESS for games of different keys
BothImported ==
    /\ BothDone
    /\ \A t \in Importers : sessions[t].result = "SUCCESS"
    /\ DateStrOf(sessions[1].file.name) # DateStrOf(sessions[2].file.name)

\* the players with a row in both files
InBoth ==
    {p \in DOMAIN players :
        \A t \in Importers : \E i \in 1..Len(sessions[t].found) : sessions[t].found[i] = p}

\* C30 as claimed: when two uploads of different games with a common player
\* have both committed, however their steps interleaved, the player's
\* aggregates are the replay of all of the player's PlayerGameStats rows.
C30_Claimed ==
    BothImported
        => \A p \in InBoth : Aggregates(players[p]) = ChronologicalReplay(p)

\* C30: when two uploads of different games with a common player have both
\* committed and one of them began after the other had ended, the player's
\* aggregates are the replay of all of the player's PlayerGameStats rows.
C30_NoLostUpdateInSequence ==
    (BothImported /\ \E t \in Importers : sessions[t].after # {})
        => \A p \in InBoth : Aggregates(players[p]) = ChronologicalReplay(p)

\* the second upload began after the first had committed; a player won in
\* one game and lost in the other
C30_Witness ==
    /\ BothImported
    /\ sessions[2].after = {1}
    /\ \E p \in InBoth :
          /\ Cardinality(StatsOf(p)) = 2
          /\ players[p].games_up = 1
          /\ players[p].games_down = 1

====
